---- MODULE Spec2Model ----
(***************************************************************************)
(* Model of the pandas / polars / dask read-write benchmark harness        *)
(* (src/main.py): main(), measure() and the three read_write_* functions.  *)
(*                                                                         *)
(* Numbers.  Python floats are modelled as exact non-negative rationals    *)
(* [n, d] in lowest terms.  For the magnitudes used here every float       *)
(* operation of the source (+, -, / 2, / 1048576, max) is exact, and       *)
(* statistics.mean is computed exactly before its final conversion.        *)
(*                                                                         *)
(* Environment.  The process's resident memory (rss), the clock, the temp  *)
(* file and whether a unit of work or os.remove raises belong to the       *)
(* environment.  A workload profile `load`, fixed for one run of the       *)
(* program because every trial reads the same dataset, gives for each kind *)
(* of work the ticks it takes and the megabytes resident when it returns.  *)
(* Every trial names a temp path of its own (tmp_<lib>_<i>.csv), so only   *)
(* the existence of the current trial's path is tracked; the path is taken *)
(* to be absent when the trial begins.                                     *)
(***************************************************************************)
EXTENDS Integers, Sequences, FiniteSets, TLC

\* ---------------------------------------------------------------- bounds
MaxRuns == 2
MaxLoad == 2

\* The configured values of `runs` that are explored (main.py sets 1000).
RunsValues == (0 - 1) .. MaxRuns

\* ------------------------------------------------------------- constants
input_path == "StudentsPerformance.csv"
sep == ","
MB == 1024 * 1024
Kinds == {"read", "compute", "write"}
NotExited == 0 - 1

\* ------------------------------------------------------------- rationals
RECURSIVE GCD(_, _)
GCD(a, b) == IF b = 0 THEN a ELSE GCD(b, a % b)

LCM(a, b) == (a \div GCD(a, b)) * b

RatOf(n, d) == LET g == GCD(n, d) IN [n |-> n \div g, d |-> d \div g]

RatAdd(a, b) ==
    LET l == LCM(a.d, b.d)
    IN  RatOf(a.n * (l \div a.d) + b.n * (l \div b.d), l)

RatDivInt(a, k) == RatOf(a.n, a.d * k)

RatLeq(a, b) ==
    LET l == LCM(a.d, b.d)
    IN  a.n * (l \div a.d) <= b.n * (l \div b.d)

\* max(a, b) of Python: the first argument unless the second is larger.
RatMax(a, b) == IF RatLeq(b, a) THEN a ELSE b

RECURSIVE RatSum(_)
RatSum(xs) == IF xs = <<>> THEN RatOf(0, 1) ELSE RatAdd(Head(xs), RatSum(Tail(xs)))

\* statistics.mean(xs), xs non-empty.
Mean(xs) == RatDivInt(RatSum(xs), Len(xs))

\* ------------------------------------------------------------ the program
VARIABLES
    input_exists,   \* Path(input_path).exists()
    runs,           \* the configured number of runs
    load,           \* workload profile: kind of work -> cost
    pc,             \* position in main / read_write_* / measure
    li,             \* index of the current backend in libs
    i,              \* index of the current trial
    temp_out,       \* temp output path of the current trial
    runs_data,      \* outcomes of the current backend
    results,        \* the report under construction
    written,        \* documents written to bench_result.json, in order
    exit_code,      \* return value of main, NotExited while running
    temp_exists,    \* os.path.exists(temp_out)
    rm_raised,      \* os.remove(temp_out) raised in the last cleanup
    rss,            \* resident memory of the process, in bytes
    clock,          \* perf_counter reading, relative to the last measurement
    step,           \* index of the measured step inside read_write_*
    mem0, t0, mem1, t1, \* locals of measure
    probe,          \* memory samples taken by the current measure call
    work_runs,      \* executions of func by the current measure call
    loc,            \* measurements returned to read_write_* so far
    uncollected     \* a unit of work ran and gc.collect has not run since

vars == <<input_exists, runs, load, pc, li, i, temp_out, runs_data, results,
          written, exit_code, temp_exists, rm_raised, rss, clock, step, mem0, t0, mem1,
          t1, probe, work_runs, loc, uncollected>>

envVars == <<input_exists, runs, load>>
measureVars == <<mem0, t0, mem1, t1, probe, work_runs>>

\* libs: an insertion-ordered dict, keys in registration order.
libs == <<"pandas", "polars", "dask">>

\* The measured steps of each read_write_* function, in order.
Steps(lib) == IF lib = "dask" THEN <<"read", "compute", "write">>
              ELSE <<"read", "write">>

\* max(1, runs)
Clamp(r) == IF r < 1 THEN 1 ELSE r

TempPath(lib, k) == <<lib, k>>

NoResults == [libs |-> <<>>]

NewResults(r) == [input |-> input_path, runs |-> r, separator |-> sep, libs |-> <<>>]

\* Variant: the error report without the input path.
ErrorReportNoInput(path) == [error |-> "input file not found"]

ErrorReport(path) == [error |-> "input file not found", input |-> path]

\* Variant: the memory figure taken from the after-sample alone.
AvgMemAfterOnly(m0, m1) == RatDivInt(RatOf(m1, 1), MB)

\* ((mem0 + mem1) / 2) / (1024 * 1024)
AvgMem(m0, m1) == RatDivInt(RatDivInt(RatOf(m0 + m1, 1), 2), 1024 * 1024)

Elapsed(a, b) == RatOf(b - a, 1)

\* Variant: a failure that also carries a metric field.
FailureWithTimes(desc) == [error |-> desc, read_time_s |-> RatOf(0, 1)]

\* {"error": repr(e)}
Failure(desc) == [error |-> desc]

PlainSample(l) ==
    [read_time_s |-> l[1].t, write_time_s |-> l[2].t,
     read_mem_mb |-> l[1].m, write_mem_mb |-> l[2].m]

PandasSample(l) == PlainSample(l)

PolarsSample(l) == PlainSample(l)

\* Variant: the two memory figures added instead of the larger one.
DaskReadMemSum(a, b) == RatAdd(a, b)

DaskReadMem(a, b) == RatMax(a, b)

DaskReadTime(a, b) == RatAdd(a, b)

DaskSample(l) ==
    [read_time_s |-> DaskReadTime(l[1].t, l[2].t), write_time_s |-> l[3].t,
     read_mem_mb |-> DaskReadMem(l[1].m, l[2].m), write_mem_mb |-> l[3].m]

SampleOf(lib, l) ==
    CASE lib = "pandas" -> PandasSample(l)
      [] lib = "polars" -> PolarsSample(l)
      [] lib = "dask" -> DaskSample(l)

IsError(r) == "error" \in DOMAIN r

\* [r for r in runs_data if "error" not in r]
SuccessfulRuns(rd) == SelectSeq(rd, LAMBDA r : ~IsError(r))

Column(rs, f) == [k \in 1 .. Len(rs) |-> rs[k][f]]

\* Variant: the failure marker with a runs_used field.
AllFailedWithCount == [error |-> "all runs failed", runs_used |-> 0]

AllFailed == [error |-> "all runs failed"]

\* Variant: failures counted as zero samples, the means divide by len(runs_data).
SummaryFailuresAsZero(rd) ==
    LET successful_runs == SuccessfulRuns(rd)
    IN  IF successful_runs # <<>>
        THEN [read_time_s |-> RatDivInt(RatSum(Column(successful_runs, "read_time_s")), Len(rd)),
              write_time_s |-> RatDivInt(RatSum(Column(successful_runs, "write_time_s")), Len(rd)),
              read_mem_mb |-> RatDivInt(RatSum(Column(successful_runs, "read_mem_mb")), Len(rd)),
              write_mem_mb |-> RatDivInt(RatSum(Column(successful_runs, "write_mem_mb")), Len(rd)),
              runs_used |-> Len(successful_runs)]
        ELSE AllFailed

\* The summary of one backend, lines 73-90.
Summary(rd) ==
    LET successful_runs == SuccessfulRuns(rd)
    IN  IF successful_runs # <<>>
        THEN [read_time_s |-> Mean(Column(successful_runs, "read_time_s")),
              write_time_s |-> Mean(Column(successful_runs, "write_time_s")),
              read_mem_mb |-> Mean(Column(successful_runs, "read_mem_mb")),
              write_mem_mb |-> Mean(Column(successful_runs, "write_mem_mb")),
              runs_used |-> Len(successful_runs)]
        ELSE AllFailed

\* Variant: a backend whose trials all failed gets no entry.
PutLibUnlessFailed(ls, name, s) == IF IsError(s) THEN ls ELSE Append(ls, <<name, s>>)

\* results["libs"][lib_name] = ...
PutLib(ls, name, s) == Append(ls, <<name, s>>)

\* Variant: the cleanup leaves the file in place.
KeepFile(exists) == exists

\* os.remove(temp_out), when it does not raise
RemoveFile(exists) == FALSE

Init ==
    /\ input_exists \in BOOLEAN
    /\ runs \in RunsValues
    /\ load \in [Kinds -> 1 .. MaxLoad]
    /\ pc = "start"
    /\ li = 0
    /\ i = 0
    /\ temp_out = <<>>
    /\ runs_data = <<>>
    /\ results = NoResults
    /\ written = <<>>
    /\ exit_code = NotExited
    /\ temp_exists = FALSE
    /\ rm_raised = FALSE
    /\ rss = MB
    /\ clock = 0
    /\ step = 0
    /\ mem0 = 0 /\ t0 = 0 /\ mem1 = 0 /\ t1 = 0
    /\ probe = <<>>
    /\ work_runs = 0
    /\ loc = <<>>
    /\ uncollected = FALSE

\* Lines 32-36: the dataset is missing.
MissingInput ==
    /\ pc = "start"
    /\ ~input_exists
    /\ written' = Append(written, ErrorReport(input_path))
    /\ exit_code' = 2
    /\ pc' = "done"
    /\ UNCHANGED <<envVars, li, i, temp_out, runs_data, results, temp_exists, rm_raised,
                   rss, clock, step, measureVars, loc, uncollected>>

\* Lines 38-50: the dataset exists; results and libs are built.
BuildResults ==
    /\ pc = "start"
    /\ input_exists
    /\ results' = NewResults(runs)
    /\ li' = 1
    /\ pc' = "lib_loop"
    /\ UNCHANGED <<envVars, i, temp_out, runs_data, written, exit_code, temp_exists,
                   rm_raised, rss, clock, step, measureVars, loc, uncollected>>

\* Lines 53-55: the next backend; runs_data = [].
LibBegin ==
    /\ pc = "lib_loop"
    /\ li <= Len(libs)
    /\ runs_data' = <<>>
    /\ i' = 0
    /\ pc' = "trial_loop"
    /\ UNCHANGED <<envVars, li, temp_out, results, written, exit_code, temp_exists,
                   rm_raised, rss, clock, step, measureVars, loc, uncollected>>

\* Lines 57-62: the next trial; temp_out is named and lib_func is called.
TrialBegin ==
    /\ pc = "trial_loop"
    /\ i < Clamp(runs)
    /\ temp_out' = TempPath(libs[li], i)
    /\ temp_exists' = FALSE
    /\ rm_raised' = FALSE
    /\ loc' = <<>>
    /\ step' = 1
    /\ pc' = "m_before"
    /\ UNCHANGED <<envVars, li, i, runs_data, results, written, exit_code,
                   rss, clock, measureVars, uncollected>>

\* measure, lines 99-102: mem0 and t0 are sampled.
MeasureBefore ==
    /\ pc = "m_before"
    /\ mem0' = rss
    /\ t0' = clock
    /\ probe' = <<rss>>
    /\ work_runs' = 0
    /\ mem1' = 0
    /\ t1' = 0
    /\ pc' = "m_work"
    /\ UNCHANGED <<envVars, li, i, temp_out, runs_data, results, written,
                   exit_code, temp_exists, rm_raised, rss, clock, step, loc, uncollected>>

CurKind == Steps(libs[li])[step]

\* measure, line 104: func returns normally.
WorkReturns ==
    /\ pc = "m_work"
    /\ work_runs' = work_runs + 1
    /\ clock' = clock + load[CurKind]
    /\ rss' = load[CurKind] * MB
    /\ temp_exists' = (CurKind = "write" \/ temp_exists)
    /\ uncollected' = TRUE
    /\ pc' = "m_after"
    /\ UNCHANGED <<envVars, li, i, temp_out, runs_data, results, written,
                   exit_code, rm_raised, step, mem0, t0, mem1, t1, probe, loc>>

\* measure, line 104: func raises.  measure does not catch; the except clause
\* of read_write_* (lines 130-131, 147-148, 166-167) returns the error dict
\* and main appends it (line 63).  A failed write may leave its file behind.
WorkRaises ==
    /\ pc = "m_work"
    /\ work_runs' = work_runs + 1
    /\ uncollected' = TRUE
    /\ \E left \in BOOLEAN :
          temp_exists' = ((CurKind = "write" /\ left) \/ temp_exists)
    /\ runs_data' = Append(runs_data, Failure(CurKind))
    /\ pc' = "cleanup"
    /\ UNCHANGED <<envVars, li, i, temp_out, results, written, exit_code,
                   rm_raised, rss, clock, step, mem0, t0, mem1, t1, probe, loc>>

\* measure, lines 106-110: t1 and mem1 are sampled.
MeasureAfter ==
    /\ pc = "m_after"
    /\ t1' = clock
    /\ mem1' = rss
    /\ probe' = Append(probe, rss)
    /\ pc' = "m_collect"
    /\ UNCHANGED <<envVars, li, i, temp_out, runs_data, results, written,
                   exit_code, temp_exists, rm_raised, rss, clock, step, mem0, t0,
                   work_runs, loc, uncollected>>

\* measure, lines 112-113: gc.collect(); return res, elapsed, avg_mem.
MeasureCollect ==
    /\ pc = "m_collect"
    /\ uncollected' = FALSE
    /\ loc' = Append(loc, [t |-> Elapsed(t0, t1), m |-> AvgMem(mem0, mem1)])
    /\ clock' = 0
    /\ IF step < Len(Steps(libs[li]))
       THEN /\ step' = step + 1
            /\ pc' = "m_before"
       ELSE /\ step' = step
            /\ pc' = "lib_return"
    /\ UNCHANGED <<envVars, li, i, temp_out, runs_data, results, written,
                   exit_code, temp_exists, rm_raised, rss, measureVars>>

\* read_write_* returns its sample (lines 124-129, 141-146, 160-165) and main
\* appends it (line 63).
LibReturn ==
    /\ pc = "lib_return"
    /\ runs_data' = Append(runs_data, SampleOf(libs[li], loc))
    /\ pc' = "cleanup"
    /\ UNCHANGED <<envVars, li, i, temp_out, results, written, exit_code, temp_exists,
                   rm_raised, rss, clock, step, measureVars, loc, uncollected>>

\* Lines 67-71, os.path.exists(temp_out) is false.
CleanupAbsent ==
    /\ pc = "cleanup"
    /\ ~temp_exists
    /\ i' = i + 1
    /\ pc' = "trial_loop"
    /\ UNCHANGED <<envVars, li, temp_out, runs_data, results, written,
                   exit_code, temp_exists, rm_raised, rss, clock, step, measureVars,
                   loc, uncollected>>

\* Lines 67-71, the file exists and os.remove succeeds.
CleanupRemove ==
    /\ pc = "cleanup"
    /\ temp_exists
    /\ temp_exists' = RemoveFile(temp_exists)
    /\ i' = i + 1
    /\ pc' = "trial_loop"
    /\ UNCHANGED <<envVars, li, temp_out, runs_data, results, written,
                   exit_code, rm_raised, rss, clock, step, measureVars, loc,
                   uncollected>>

\* Lines 67-71, the file exists and os.remove raises: except Exception: pass.
CleanupRemoveRaises ==
    /\ pc = "cleanup"
    /\ temp_exists
    /\ rm_raised' = TRUE
    /\ i' = i + 1
    /\ pc' = "trial_loop"
    /\ UNCHANGED <<envVars, li, temp_out, runs_data, results, written,
                   exit_code, temp_exists, rss, clock, step, measureVars, loc,
                   uncollected>>

\* Lines 73-90: the trials of this backend are over; its summary is stored.
Aggregate ==
    /\ pc = "trial_loop"
    /\ ~(i < Clamp(runs))
    /\ results' = [results EXCEPT !.libs = PutLib(@, libs[li], Summary(runs_data))]
    /\ li' = li + 1
    /\ pc' = "lib_loop"
    /\ UNCHANGED <<envVars, i, temp_out, runs_data, written, exit_code, temp_exists,
                   rm_raised, rss, clock, step, measureVars, loc, uncollected>>

\* Lines 92-95: the report is written; return 0.
WriteReport ==
    /\ pc = "lib_loop"
    /\ li > Len(libs)
    /\ written' = Append(written, results)
    /\ exit_code' = 0
    /\ pc' = "done"
    /\ UNCHANGED <<envVars, li, i, temp_out, runs_data, results, temp_exists, rm_raised,
                   rss, clock, step, measureVars, loc, uncollected>>

Next ==
    \/ MissingInput
    \/ BuildResults
    \/ LibBegin
    \/ TrialBegin
    \/ MeasureBefore
    \/ WorkReturns
    \/ WorkRaises
    \/ MeasureAfter
    \/ MeasureCollect
    \/ LibReturn
    \/ CleanupAbsent
    \/ CleanupRemove
    \/ CleanupRemoveRaises
    \/ Aggregate
    \/ WriteReport

Spec == Init /\ [][Next]_vars

\* ------------------------------------------------------------ properties
Metrics == {"read_time_s", "write_time_s", "read_mem_mb", "write_mem_mb"}

IsCompleteSample(r) == DOMAIN r = Metrics

IsFailure(r) == DOMAIN r = {"error"}

\* The backend libs[li - 1] has just been aggregated; runs_data still holds
\* its outcomes and Entry is its summary in the report.
JustAggregated == pc = "lib_loop" /\ li > 1

Entry == results.libs[li - 1][2]

Succeeded == {k \in 1 .. Len(runs_data) : IsCompleteSample(runs_data[k])}

RECURSIVE FieldTotal(_, _, _)
FieldTotal(rd, f, k) ==
    IF k = 0 THEN [n |-> 0, d |-> 1]
    ELSE IF IsCompleteSample(rd[k]) THEN RatAdd(rd[k][f], FieldTotal(rd, f, k - 1))
    ELSE FieldTotal(rd, f, k - 1)

Last(seq) == seq[Len(seq)]

\* C1: when k of the N = max(1, runs) trials of a backend fail and N - k >= 1
\* succeed, its summary has runs_used = N - k and every metric times N - k
\* equals the total of that metric over the successful trials alone.
C1_MeanOverSuccessful ==
    (JustAggregated /\ Succeeded # {}) =>
        /\ Len(runs_data) = (IF runs < 1 THEN 1 ELSE runs)
        /\ DOMAIN Entry = Metrics \cup {"runs_used"}
        /\ Entry.runs_used = Cardinality(Succeeded)
        /\ \A f \in Metrics :
              LET mean == Entry[f]
                  total == FieldTotal(runs_data, f, Len(runs_data))
              IN  mean.n * Cardinality(Succeeded) * total.d = total.n * mean.d

\* C1 witness: a backend with one failed and one successful trial was summarised.
C1_Witness ==
    /\ JustAggregated
    /\ Len(runs_data) = 2
    /\ Cardinality(Succeeded) = 1
    /\ Entry.runs_used = 1

\* C2: when every trial of a backend fails, its summary is exactly
\* {"error": "all runs failed"}, whatever the number and the descriptions of
\* the failures.
C2_AllRunsFailed ==
    (JustAggregated /\ Succeeded = {}) =>
        /\ DOMAIN Entry = {"error"}
        /\ Entry.error = "all runs failed"

\* C2 witness: two trials failed with different descriptions and were summarised.
C2_Witness ==
    /\ JustAggregated
    /\ Succeeded = {}
    /\ Len(runs_data) = 2
    /\ runs_data[1].error # runs_data[2].error
    /\ IsError(Entry)

InTrial == pc \in {"m_before", "m_work", "m_after", "m_collect", "lib_return"}

\* C3: every trial records exactly one outcome, a complete sample or a
\* failure and never a mixture; a raising step ends main neither early nor
\* abnormally, and the loop goes on with the cleanup and the next trial.
C3_OneOutcomePerTrial ==
    /\ InTrial => Len(runs_data) = i
    /\ pc = "trial_loop" => Len(runs_data) = i
    /\ pc = "cleanup" =>
          /\ Len(runs_data) = i + 1
          /\ exit_code = NotExited
          /\ ENABLED (CleanupAbsent \/ CleanupRemove)
    /\ \A k \in 1 .. Len(runs_data) :
          /\ IsCompleteSample(runs_data[k]) \/ IsFailure(runs_data[k])
          /\ ~(IsCompleteSample(runs_data[k]) /\ IsFailure(runs_data[k]))

\* C3 witness: a trial whose write raised was followed by a trial that succeeded.
C3_Witness ==
    /\ pc = "cleanup"
    /\ Len(runs_data) = 2
    /\ IsFailure(runs_data[1])
    /\ runs_data[1].error = "write"
    /\ IsCompleteSample(runs_data[2])

\* C4 as stated: after any trial its temp path does not exist when the next
\* trial or the aggregation begins.
C4_TempGone ==
    (pc = "trial_loop" /\ i > 0) => ~temp_exists

\* C4 amended: after any trial its temp path does not exist when the next
\* trial or the aggregation begins, unless os.remove raised for that path.
C4_TempGoneUnlessRemoveRaised ==
    (pc = "trial_loop" /\ i > 0 /\ ~rm_raised) => ~temp_exists

\* C4 witness: a successful trial wrote its temp file and the cleanup removed it.
C4_Witness ==
    /\ pc = "trial_loop"
    /\ i > 0
    /\ IsCompleteSample(Last(runs_data))
    /\ temp_out = TempPath(libs[li], i - 1)
    /\ ~rm_raised
    /\ ~temp_exists

\* C5: when the dataset is missing, the only document written is
\* {"error": "input file not found", "input": <path>}, main returns 2, and no
\* backend is entered, no work is measured and no summary is built.
C5_MissingInput ==
    ~input_exists =>
        /\ pc \in {"start", "done"}
        /\ li = 0 /\ runs_data = <<>> /\ results.libs = <<>>
        /\ work_runs = 0 /\ probe = <<>> /\ temp_exists = FALSE /\ ~uncollected
        /\ pc = "done" =>
              /\ Len(written) = 1
              /\ DOMAIN written[1] = {"error", "input"}
              /\ written[1].error = "input file not found"
              /\ written[1].input = "StudentsPerformance.csv"
              /\ exit_code = 2

\* C5 witness: main has returned after finding the dataset missing.
C5_Witness == ~input_exists /\ pc = "done" /\ exit_code = 2

\* Some step of main is enabled at the current program point (at the head of
\* the trial loop: the next trial, or the aggregation once the range is over).
CanStep ==
    CASE pc = "start" -> ENABLED BuildResults
      [] pc = "lib_loop" -> ENABLED (LibBegin \/ WriteReport)
      [] pc = "trial_loop" -> (ENABLED TrialBegin) \/ ~(i < Clamp(runs))
      [] pc = "m_before" -> ENABLED MeasureBefore
      [] pc = "m_work" -> ENABLED (WorkReturns \/ WorkRaises)
      [] pc = "m_after" -> ENABLED MeasureAfter
      [] pc = "m_collect" -> ENABLED MeasureCollect
      [] pc = "lib_return" -> ENABLED LibReturn
      [] pc = "cleanup" -> ENABLED (CleanupAbsent \/ CleanupRemove)
      [] OTHER -> FALSE

\* C6: when the dataset exists, main never stops before its end whatever
\* fails; at its end every backend has exactly one summary, in registration
\* order, the report was written exactly once and the exit status is 0.
C6_NormalCompletion ==
    input_exists =>
        /\ pc # "done" => (exit_code = NotExited /\ written = <<>> /\ CanStep)
        /\ pc = "done" =>
              /\ exit_code = 0
              /\ Len(written) = 1
              /\ written[1] = results
              /\ Len(results.libs) = 3
              /\ results.libs[1][1] = "pandas"
              /\ results.libs[2][1] = "polars"
              /\ results.libs[3][1] = "dask"

\* C6 witness: main has returned 0 after every trial of every backend failed.
C6_Witness ==
    /\ input_exists
    /\ pc = "done"
    /\ exit_code = 0
    /\ Len(results.libs) = 3
    /\ \A k \in 1 .. 3 : IsError(results.libs[k][2])

\* C7: the runs value echoed in the report is max(1, runs), every backend
\* ran max(1, runs) trials, and no runs_used exceeds the echoed runs.
C7_RunsClamped ==
    /\ JustAggregated => Len(runs_data) = (IF runs < 1 THEN 1 ELSE runs)
    /\ (input_exists /\ pc = "done") =>
          /\ written[1].runs = (IF runs < 1 THEN 1 ELSE runs)
          /\ \A k \in 1 .. Len(written[1].libs) :
                LET s == written[1].libs[k][2]
                IN  ~IsError(s) => s.runs_used <= written[1].runs

DaskSucceeded ==
    /\ pc = "cleanup"
    /\ libs[li] = "dask"
    /\ IsCompleteSample(Last(runs_data))

\* C8: a successful dask trial reports read_mem_mb equal to the larger of the
\* lazy-build and the materialization memory figures, and read_time_s equal
\* to the sum of the two elapsed times.
C8_DaskMaxAndSum ==
    DaskSucceeded =>
        LET s == Last(runs_data)
            lazy == loc[1]
            comp == loc[2]
        IN  /\ s.read_mem_mb \in {lazy.m, comp.m}
            /\ s.read_mem_mb.n * lazy.m.d >= lazy.m.n * s.read_mem_mb.d
            /\ s.read_mem_mb.n * comp.m.d >= comp.m.n * s.read_mem_mb.d
            /\ s.read_time_s.n * lazy.t.d * comp.t.d
                  = (lazy.t.n * comp.t.d + comp.t.n * lazy.t.d) * s.read_time_s.d

\* C8 witness: a dask trial succeeded whose materialization figure is the
\* larger one and differs from the lazy-build figure.
C8_Witness ==
    /\ DaskSucceeded
    /\ loc[1].m # loc[2].m
    /\ Last(runs_data).read_mem_mb = loc[2].m

\* measure has just returned to read_write_*; probe and work_runs are those
\* of that call.
MeasureReturned == pc \in {"m_before", "lib_return"} /\ loc # <<>>

\* C9: a measure call whose work returns normally ran the work once, took one
\* memory sample before and one after it, and returns
\* (mem_before + mem_after) / 2 / 1048576, which is not negative.
C9_MeasureMemory ==
    MeasureReturned =>
        /\ work_runs = 1
        /\ Len(probe) = 2
        /\ Last(loc).m.n * 2 * 1048576 = (probe[1] + probe[2]) * Last(loc).m.d
        /\ Last(loc).m.n >= 0
        /\ Last(loc).m.d > 0

\* C9 witness: measure returned after sampling two different memory values.
C9_Witness == MeasureReturned /\ Len(probe) = 2 /\ probe[1] # probe[2]

\* C10: whenever a before-sample is about to be taken, gc.collect has run
\* since the last execution of a measured unit of work, also when that work
\* raised.
C10_CollectedBeforeNextSample == pc = "m_before" => ~uncollected

====
